---- MODULE Spec2Model ----
(***************************************************************************)
(* Telemetry sampling and dispatch core of the OmniTrack driver app:       *)
(* the haversine distance, the 20 m / 30 s send filter of processPosition, *)
(* the asynchronous pushTelemetry round trip, the tracking toggle, the     *)
(* setup screen, the back button, the battery monitor and the bounded      *)
(* status log.  The web build (App.tsx) and the native build carry the     *)
(* same logic and line references are to App.tsx and dataService.ts, but   *)
(* for the settings store, which the native build reads asynchronously.    *)
(***************************************************************************)
EXTENDS Integers, Sequences, FiniteSets, TLC

VARIABLES
    clock,                  \* the last value Date.now() returned, milliseconds
    geolocation,            \* platform: navigator.geolocation exists
    busId,                  \* useState: the bus identifier typed at setup
    isSetupComplete,        \* useState: the dashboard is shown
    isTracking,             \* useState(false)
    watchIdRef,             \* useRef: handle of the subscription, or NULL
    activeWatches,          \* platform side: handles watchPosition still serves
    nextWatchId,            \* platform side: next handle watchPosition returns
    lastSentLocationRef,    \* useRef: last fix sent with success, or NULL
    lastSentTimeRef,        \* useRef: instant of that fix, 0 at start
    lastLocation,           \* useState: position shown on the dashboard
    currentSpeed,           \* useState: speed shown on the dashboard
    statusMessage,          \* useState
    statusType,             \* useState
    logs,                   \* useState: the status log
    inflight,               \* pushTelemetry calls that have not resolved yet
    pendingTimers,          \* setTimeout(..., 2000) callbacks not yet run
    fbConfig,               \* useState: the sink settings, by what they lead to
    isMockMode,             \* dataService module state
    db,                     \* dataService module state
    mockDb,                 \* dataService module state: records kept in mock mode
    remoteDb,               \* the remote database: records under buses/*/location
    incidentText,           \* useState(""): what the driver typed, key by key
    generatedMsg,           \* useState(""): the announcement shown
    isGenerating,           \* useState(false)
    showIncidentModal,      \* useState(false)
    aiCalls,                \* generateAnnouncement calls that have not completed
    direction,              \* useState('northbound')
    batteryLevel,           \* useState(100): per cent
    isCharging,             \* useState(false)
    storedBusId,            \* settings store: the item 'omni_bus_id'
    storageOps,             \* settings store: calls that have not completed yet
    launchedWith,           \* history: 'omni_bus_id' when the app was launched
    nBacks,                 \* history: presses of the back button
    nReports,               \* history: battery states the device reported
    appended,               \* history: every entry addLog was called with
    nEdits,                 \* history: edits made on the setup screen
    nErrors,                \* history: errors the position stream reported
    nPushes,                \* history: pushTelemetry calls started so far
    nToggles,               \* history: presses of the tracking button
    sessionFresh,           \* history: tracking was started and no fix came yet
    lastEvent               \* history: the handler that ran last

vars == <<clock, geolocation, busId, isSetupComplete, isTracking, watchIdRef,
          activeWatches, nextWatchId, lastSentLocationRef, lastSentTimeRef,
          lastLocation, currentSpeed, statusMessage, statusType, logs,
          inflight, pendingTimers, fbConfig, isMockMode, db, mockDb, appended,
          remoteDb, incidentText, generatedMsg, isGenerating, showIncidentModal,
          aiCalls, direction, batteryLevel, isCharging, storedBusId, storageOps,
          launchedWith, nBacks, nReports, nEdits, nErrors, nPushes, nToggles,
          sessionFresh, lastEvent>>

\* The state around the dispatch core: the device, and the settings store
device == <<direction, batteryLevel, isCharging, nBacks, nReports>>
settingsStore == <<storedBusId, storageOps, launchedWith>>

\* The state of the incident dialog
announcer == <<incidentText, generatedMsg, isGenerating, showIncidentModal, aiCalls>>

-----------------------------------------------------------------------------
(* Bounds of the model *)

MaxPushes == 2        \* pushTelemetry calls started in one run
MaxToggles == 3       \* presses of the tracking button in one run
MaxEvents == 4        \* presses, calls, edits, errors and reports together in one run
MaxEdits == 1         \* edits on the setup screen in one run
MaxErrors == 1        \* errors of the position stream in one run
MaxKeystrokes == 60   \* keys typed into the server settings in one run
MaxBacks == 1         \* presses of the back button in one run
MaxReports == 1       \* battery states the device reports in one run

-----------------------------------------------------------------------------
(* Program constants *)

DistanceThresholdM == 20      \* distanceMoved > 20
HeartbeatMs == 30000          \* timeElapsed > 30000
KeepLogs == 49                \* prev.slice(-49)
EarthRadiusM == 6371000       \* const R = 6371e3
MinBusIdLength == 3           \* busId.length < 3

NULL == [null |-> TRUE]
DB == [database |-> TRUE]

\* The handle watchPosition returns for its n-th subscription
WatchHandle(n) == [watch |-> n]

-----------------------------------------------------------------------------
(* Inputs *)

\* Fixes lie on a grid whose unit is one metre of arc (180/(pi*R) degrees),
\* around latitude 0, longitude 0.
\* From the first fix the second is 20 m away and the third 21 m.
Fixes == {[lat |-> 0, lng |-> 0], [lat |-> 12, lng |-> 16], [lat |-> 21, lng |-> 0]}

\* The values Date.now() returns: the first, one 30000 ms and one 30001 ms
\* after it
Instants == {1000, 31000, 31001}
FirstInstant == CHOOSE t \in Instants : \A u \in Instants : t <= u

\* Fixes all around the origin, for the distance between any two of them
GeoFixes == {[lat |-> y, lng |-> x] : y \in {-21, 0, 12}, x \in {-16, 0, 21}}

AllFixes == Fixes \cup GeoFixes

\* coords.speed of a fix: null when the platform cannot tell, else metres per
\* second
Speed[fix \in AllFixes] ==
    CASE fix.lat = 0 -> NULL
      [] fix.lat = 12 -> [mps |-> 0]
      [] OTHER -> [mps |-> 14]

\* coords.heading of a fix: null when the platform cannot tell (no speed, or
\* the device at rest), else degrees from north
Heading[fix \in AllFixes] ==
    IF Speed[fix] = NULL THEN NULL
    ELSE IF Speed[fix].mps = 0 THEN NULL ELSE [deg |-> 90]

\* The two directions of the route
Directions == {"northbound", "southbound"}

\* What the device reports of its battery: the level in hundredths, and
\* whether it is charging
BatteryStates ==
    {[level |-> 55, charging |-> TRUE], [level |-> 100, charging |-> FALSE]}

\* What the bus identifier field may hold: nothing, two characters, a full
\* identifier
BusIds == {"", "B7", "BUS-042"}

-----------------------------------------------------------------------------
(* Geodesy: getDistanceInMeters *)

RECURSIVE SqrtBetween(_, _, _)
SqrtBetween(n, lo, hi) ==
    IF lo >= hi THEN lo
    ELSE LET mid == (lo + hi + 1) \div 2
         IN  IF mid * mid <= n THEN SqrtBetween(n, mid, hi)
                               ELSE SqrtBetween(n, lo, mid - 1)

\* Math.sqrt, rounded down to an integer (46340 is the largest root of an
\* integer TLC has)
Sqrt(n) == SqrtBetween(n, 0, IF n < 46340 THEN n ELSE 46340)

\* Angles are fixed-point numbers: one unit is Precision-th of a grid unit of
\* arc, that is 1 / (Precision * R) radians.  A coordinate of the grid is
\* lat / R radians, so `lat * Math.PI/180` is a multiplication by Precision.
Precision == 100

ToRadians(deg) == deg * Precision

\* Math.sin(x) = x - x^3/6 + ...; the cubic term is taken in two divisions
\* to stay within the integers TLC has
Sin(x) == x - ((((x * x) \div (6 * EarthRadiusM)) * x) \div (Precision * Precision)) \div EarthRadiusM

\* Math.cos(x) = 1 - x^2/2 + ..., as a multiple of 1/Precision
Cos(x) == Precision - ((x * x) \div (2 * Precision * EarthRadiusM)) \div EarthRadiusM

\* Math.atan2(y, x) for 0 <= y, with x = sqrt(1 - y^2): y + y^3/6 + ...
Atan2(y) == y + ((((y * y) \div (6 * EarthRadiusM)) * y) \div (Precision * Precision)) \div EarthRadiusM

\* Variants that take a coordinate of the second point for the difference
\* of the two: the latitude, the longitude
getDistanceInMetersFromEquator(lat1, lon1, lat2, lon2) ==
    LET phi1 == ToRadians(lat1)
        phi2 == ToRadians(lat2)
        dPhi == ToRadians(lat2)
        dLambda == ToRadians(lon2 - lon1)
        sinHalfPhi == Sin(dPhi \div 2)
        sinHalfLambda == Sin(dLambda \div 2)
        a == sinHalfPhi * sinHalfPhi
             + ((Cos(phi1) * sinHalfLambda) \div Precision)
               * ((Cos(phi2) * sinHalfLambda) \div Precision)
        c == 2 * Atan2(Sqrt(a))
    IN  c

getDistanceInMetersFromMeridian(lat1, lon1, lat2, lon2) ==
    LET phi1 == ToRadians(lat1)
        phi2 == ToRadians(lat2)
        dPhi == ToRadians(lat2 - lat1)
        dLambda == ToRadians(lon2)
        sinHalfPhi == Sin(dPhi \div 2)
        sinHalfLambda == Sin(dLambda \div 2)
        a == sinHalfPhi * sinHalfPhi
             + ((Cos(phi1) * sinHalfLambda) \div Precision)
               * ((Cos(phi2) * sinHalfLambda) \div Precision)
        c == 2 * Atan2(Sqrt(a))
    IN  c

\* The haversine distance, in Precision-ths of a metre
getDistanceInMeters(lat1, lon1, lat2, lon2) ==
    LET phi1 == ToRadians(lat1)
        phi2 == ToRadians(lat2)
        dPhi == ToRadians(lat2 - lat1)
        dLambda == ToRadians(lon2 - lon1)
        sinHalfPhi == Sin(dPhi \div 2)
        sinHalfLambda == Sin(dLambda \div 2)
        a == sinHalfPhi * sinHalfPhi
             + ((Cos(phi1) * sinHalfLambda) \div Precision)
               * ((Cos(phi2) * sinHalfLambda) \div Precision)
        c == 2 * Atan2(Sqrt(a))
    IN  c

-----------------------------------------------------------------------------
(* Sampling policy: the distance filter of processPosition *)

\* Variants of the filter: both conditions needed, the bounds included, no
\* heartbeat
OverThresholdBoth(distanceMoved, timeElapsed) ==
    distanceMoved > DistanceThresholdM * Precision /\ timeElapsed > HeartbeatMs

OverThresholdInclusive(distanceMoved, timeElapsed) ==
    distanceMoved >= DistanceThresholdM * Precision \/ timeElapsed >= HeartbeatMs

OverThresholdDistanceOnly(distanceMoved, timeElapsed) ==
    distanceMoved > DistanceThresholdM * Precision

\* distanceMoved > 20 || timeElapsed > 30000
OverThreshold(distanceMoved, timeElapsed) ==
    distanceMoved > DistanceThresholdM * Precision \/ timeElapsed > HeartbeatMs

\* getDistanceInMeters on the fixes of the model, computed once
DistanceMoved[from \in AllFixes, to \in AllFixes] ==
    getDistanceInMeters(from.lat, from.lng, to.lat, to.lng)

\* Variant without the test for a first fix: the empty memory reads as the
\* origin at time 0
ShouldSendNoFirstFix(lastLoc, lastTime, fix, now) ==
    LET from == IF lastLoc = NULL THEN [lat |-> 0, lng |-> 0] ELSE lastLoc
    IN  [shouldSend |-> OverThreshold(DistanceMoved[from, fix], now - lastTime),
         distanceMoved |-> DistanceMoved[from, fix]]

ShouldSend(lastLoc, lastTime, fix, now) ==
    IF lastLoc = NULL
    THEN [shouldSend |-> TRUE, distanceMoved |-> 0]
    ELSE [shouldSend |-> OverThreshold(DistanceMoved[lastLoc, fix], now - lastTime),
          distanceMoved |-> DistanceMoved[lastLoc, fix]]

-----------------------------------------------------------------------------
(* Log ring buffer: addLog *)

SliceLast(s, n) == IF Len(s) <= n THEN s ELSE SubSeq(s, Len(s) - n + 1, Len(s))

\* uuidv4(): an identifier no entry of the log has, one more than the newest
uuidv4(prev) == IF prev = <<>> THEN 1 ELSE prev[Len(prev)].id + 1

\* Variants: one entry too many is kept; a full log takes no new entry
addLogOffByOne(prev, type, message) ==
    Append(SliceLast(prev, KeepLogs + 1),
           [id |-> uuidv4(prev), type |-> type, message |-> message])

addLogKeepsOldest(prev, type, message) ==
    IF Len(prev) > KeepLogs THEN prev
    ELSE Append(prev, [id |-> uuidv4(prev), type |-> type, message |-> message])

addLog(prev, type, message) ==
    Append(SliceLast(prev, KeepLogs),
           [id |-> uuidv4(prev), type |-> type, message |-> message])

\* History of the calls of addLog: the n-th call is kept with identifier n
Logged(history, entry) ==
    Append(history, [id |-> Len(history) + 1, type |-> entry.type,
                     message |-> entry.message])

RECURSIVE LoggedAll(_, _)
LoggedAll(history, entries) ==
    IF entries = <<>> THEN history
    ELSE LoggedAll(Logged(history, Head(entries)), Tail(entries))

-----------------------------------------------------------------------------
(* Telemetry sink: dataService.ts.  The remote database is write-only for  *)
(* the app and is not part of the state; mockDb is.                         *)

\* Sink settings: "missing" has no databaseURL or apiKey even after the
\* defaults are filled in, "unusable" makes initializeApp or getDatabase
\* throw, "valid" connects
Configs == {"missing", "unusable", "valid"}

\* Variant without the fallback to the mock sink
initializeFirebaseNoFallback(config, oldDb) ==
    IF config = "valid"
    THEN [isMockMode |-> FALSE, db |-> DB, error |-> "none"]
    ELSE [isMockMode |-> FALSE, db |-> oldDb, error |-> "Missing Configuration"]

\* What initializeFirebase leaves behind, and what it returns
initializeFirebase(config, oldDb) ==
    IF config # "missing"
    THEN IF config = "valid"
         THEN [isMockMode |-> FALSE, db |-> DB, error |-> "none"]
         ELSE [isMockMode |-> TRUE, db |-> oldDb, error |-> "Database Service Unavailable"]
    ELSE [isMockMode |-> TRUE, db |-> oldDb, error |-> "Missing Configuration"]

\* The branch pushTelemetry takes, decided when it is called
PushBranch(mock, database) ==
    IF mock THEN "mock" ELSE IF database # NULL THEN "live" ELSE "nodb"

\* Variant without the try/catch around the write: a write error rejects
PushRejectsOnWriteError(branch) == IF branch = "live" THEN {FALSE, TRUE} ELSE {FALSE}

\* Whether the promise pushTelemetry returns can reject on a branch: every
\* statement that can throw is inside its try/catch
PushRejects(branch) == {FALSE}

\* The values pushTelemetry can resolve to on a branch
PushOutcomes(branch) ==
    CASE branch = "mock" -> {TRUE}
      [] branch = "live" -> {TRUE, FALSE}
      [] OTHER -> {FALSE}

-----------------------------------------------------------------------------
(* State after the component has mounted *)

\* The effect that calls initializeFirebase (mount, fbConfig or isTracking
\* changed): what it leaves in statusMessage, statusType and logs
InitEffect(fb, tracking, msg, type, prev) ==
    IF fb.error # "none"
    THEN [statusMessage |-> "DB Error", statusType |-> "error",
          logs |-> addLog(prev, "error", "Firebase Init Failed"),
          entry |-> [type |-> "error", message |-> "Firebase Init Failed"]]
    ELSE [statusMessage |-> IF tracking THEN msg ELSE "System Ready",
          statusType |-> IF tracking THEN type ELSE "normal",
          logs |-> addLog(prev, "info", "System Initialized"),
          entry |-> [type |-> "info", message |-> "System Initialized"]]

\* The component after its mount, but for the settings store
Mounted(config, bus, supported) ==
        LET fb == initializeFirebase(config, NULL)
            ui == InitEffect(fb, FALSE, "Ready", "normal", <<>>)
        IN  /\ clock = FirstInstant
            /\ geolocation = supported
            /\ busId = bus
            /\ direction = "northbound"
            /\ batteryLevel = 100
            /\ isCharging = FALSE
            /\ nBacks = 0
            /\ nReports = 0
            /\ isSetupComplete = FALSE
            /\ currentSpeed = 0
            /\ mockDb = <<>>
            /\ remoteDb = {}
            /\ incidentText = <<>>
            /\ generatedMsg = ""
            /\ isGenerating = FALSE
            /\ showIncidentModal = FALSE
            /\ aiCalls = {}
            /\ appended = Logged(<<>>, ui.entry)
            /\ nEdits = 0
            /\ nErrors = 0
            /\ isTracking = FALSE
            /\ watchIdRef = NULL
            /\ activeWatches = {}
            /\ nextWatchId = 1
            /\ lastSentLocationRef = NULL
            /\ lastSentTimeRef = 0
            /\ lastLocation = NULL
            /\ statusMessage = ui.statusMessage
            /\ statusType = ui.statusType
            /\ logs = ui.logs
            /\ inflight = {}
            /\ pendingTimers = 0
            /\ fbConfig = config
            /\ isMockMode = fb.isMockMode
            /\ db = fb.db
            /\ nPushes = 0
            /\ nToggles = 0
            /\ sessionFresh = FALSE
            /\ lastEvent = [kind |-> "mount"]

\* busId comes from localStorage, fbConfig from localStorage or the defaults;
\* localStorage answers at once
Init ==
    \E config \in Configs, stored \in BusIds, supported \in BOOLEAN :
        /\ Mounted(config, stored, supported)
        /\ storedBusId = stored
        /\ storageOps = {}
        /\ launchedWith = stored

-----------------------------------------------------------------------------
(* Actions *)

\* Variant that sends the direction the component starts with
TelemetryNorthbound(bus, fix, now) ==
    [busId |-> bus, direction |-> "northbound", routeId |-> "alabang-lawton",
     timestamp |-> now, latitude |-> fix.lat, longitude |-> fix.lng,
     speed |-> Speed[fix], heading |-> Heading[fix],
     batteryLevel |-> [fraction |-> batteryLevel],
     isCharging |-> [charging |-> isCharging]]

\* The record processPosition hands to pushTelemetry.  batteryLevel / 100 is
\* a fraction, kept in hundredths
Telemetry(bus, fix, now) ==
    [busId |-> bus, direction |-> direction, routeId |-> "alabang-lawton",
     timestamp |-> now, latitude |-> fix.lat, longitude |-> fix.lng,
     speed |-> Speed[fix], heading |-> Heading[fix],
     batteryLevel |-> [fraction |-> batteryLevel],
     isCharging |-> [charging |-> isCharging]]

\* Variant that sends every fix
StartsPushAlways(policy) == TRUE

\* if (shouldSend): the fix goes to the sink
StartsPush(policy) == policy.shouldSend

\* Variant that shows only the fixes that are sent
ShownPositionIfSent(policy, fix, old) ==
    IF policy.shouldSend
    THEN [lastLocation |-> fix,
          currentSpeed |-> IF Speed[fix] = NULL THEN 0 ELSE Speed[fix].mps]
    ELSE old

\* setLastLocation({lat, lng}); setCurrentSpeed(speed || 0)
ShownPosition(policy, fix, old) ==
    [lastLocation |-> fix,
     currentSpeed |-> IF Speed[fix] = NULL THEN 0 ELSE Speed[fix].mps]

\* processPosition up to its await: the position stream delivers a fix to the
\* handler of an active subscription, and Date.now() returns now
processPosition(fix, now) ==
    /\ activeWatches # {}
    /\ now >= clock
    /\ clock' = now
    /\ LET lastLoc == lastSentLocationRef
           lastTime == lastSentTimeRef
           policy == ShouldSend(lastLoc, lastTime, fix, now)
           shown == ShownPosition(policy, fix,
                        [lastLocation |-> lastLocation, currentSpeed |-> currentSpeed])
           call == [id |-> nPushes + 1,
                    telemetry |-> Telemetry(busId, fix, now),
                    branch |-> PushBranch(isMockMode, db)]
       IN  /\ lastLocation' = shown.lastLocation
           /\ currentSpeed' = shown.currentSpeed
           /\ IF StartsPush(policy)
              THEN /\ nPushes < MaxPushes
                   /\ nPushes + nToggles + nEdits + nErrors + nBacks + nReports < MaxEvents
                   /\ statusMessage' = "Syncing..."
                   /\ inflight' = inflight \cup {call}
                   /\ nPushes' = nPushes + 1
              ELSE UNCHANGED <<statusMessage, inflight, nPushes>>
           /\ lastEvent' = [kind |-> "fix", first |-> sessionFresh, fix |-> fix,
                            shouldSend |-> policy.shouldSend,
                            distanceMoved |-> policy.distanceMoved]
    /\ sessionFresh' = FALSE
    /\ UNCHANGED <<device, settingsStore>>
    /\ UNCHANGED <<geolocation, busId, isSetupComplete, isTracking, watchIdRef,
                   activeWatches, nextWatchId, lastSentLocationRef,
                   lastSentTimeRef, statusType, logs, pendingTimers, fbConfig,
                   isMockMode, db, mockDb, appended, nEdits, nErrors, nToggles>>
    /\ UNCHANGED <<remoteDb, announcer>>

\* Variants: the memory is written whatever the sink answered; only the
\* position is written
MemoryAfterPushAlways(success, call, lastLoc, lastTime) ==
    [loc |-> [lat |-> call.telemetry.latitude, lng |-> call.telemetry.longitude],
     time |-> call.telemetry.timestamp]

MemoryAfterPushKeepsTime(success, call, lastLoc, lastTime) ==
    IF success
    THEN [loc |-> [lat |-> call.telemetry.latitude, lng |-> call.telemetry.longitude],
          time |-> lastTime]
    ELSE [loc |-> lastLoc, time |-> lastTime]

\* Dispatch Memory after a pushTelemetry call has resolved
MemoryAfterPush(success, call, lastLoc, lastTime) ==
    IF success
    THEN [loc |-> [lat |-> call.telemetry.latitude, lng |-> call.telemetry.longitude],
          time |-> call.telemetry.timestamp]
    ELSE [loc |-> lastLoc, time |-> lastTime]

\* Variant of the mock sink that keeps nothing
MockStoreDrops(branch, store, data) == store

\* mockDb.push(data), on the mock branch only
MockStore(branch, store, data) ==
    IF branch = "mock" THEN Append(store, data) ELSE store

\* set(ref(db, `buses/${data.busId}/location`), ...), applied when the call
\* completes with success: the record under the path of the bus is replaced
RemoteSet(branch, success, store, data) ==
    IF branch = "live" /\ success
    THEN {record \in store : record.busId # data.busId} \cup {data}
    ELSE store

\* The mock sink takes 500 ms for every call, so mock calls resolve in the
\* order they were made; the live sink answers when the network does
MayResolve(call) ==
    call.branch = "mock" =>
        \A other \in inflight : other.branch = "mock" => other.id >= call.id

\* Variant of the failure branch that tells nothing
FailureReportSilent(prev) == prev

\* The failure branch of processPosition: addLog('error', ...)
FailureReport(prev) == addLog(prev, "error", "Firebase sync failed")

\* Variant that leaves a failed call outstanding, to be sent again
OutstandingRetries(success, call, calls) ==
    IF success THEN calls \ {call} ELSE calls

\* The calls still outstanding once one has resolved: the record is handed
\* to the sink once, whatever the answer
Outstanding(success, call, calls) == calls \ {call}

\* processPosition from its await on: pushTelemetry resolves, and new Date()
\* returns now
PushResolves(call, success, now) ==
    /\ call \in inflight
    /\ MayResolve(call)
    /\ now >= clock
    /\ clock' = now
    /\ success \in PushOutcomes(call.branch)
    /\ inflight' = Outstanding(success, call, inflight)
    /\ mockDb' = MockStore(call.branch, mockDb, call.telemetry)
    /\ LET memory == MemoryAfterPush(success, call, lastSentLocationRef, lastSentTimeRef)
       IN  /\ lastSentLocationRef' = memory.loc
           /\ lastSentTimeRef' = memory.time
    /\ \E rejected \in PushRejects(call.branch) :
        /\ rejected => ~success
        /\ lastEvent' = [kind |-> "resolve", success |-> success,
                         rejected |-> rejected]
        /\ CASE rejected ->
                /\ statusMessage' = "Network Error"
                /\ statusType' = "error"
                /\ logs' = addLog(logs, "error", "Net Err")
                /\ appended' = Logged(appended, [type |-> "error", message |-> "Net Err"])
                /\ UNCHANGED pendingTimers
             [] ~rejected /\ success ->
                /\ statusMessage' = "Data Synced"
                /\ statusType' = "success"
                /\ logs' = addLog(logs, "success", "Sent")
                /\ appended' = Logged(appended, [type |-> "success", message |-> "Sent"])
                /\ pendingTimers' = pendingTimers + 1
             [] OTHER ->
                /\ statusMessage' = "Sync Failed"
                /\ statusType' = "error"
                /\ logs' = FailureReport(logs)
                /\ appended' = Logged(appended, [type |-> "error", message |-> "Firebase sync failed"])
                /\ UNCHANGED pendingTimers
    /\ UNCHANGED <<device, settingsStore>>
    /\ UNCHANGED <<geolocation, busId, isSetupComplete, isTracking, watchIdRef,
                   activeWatches, nextWatchId, lastLocation, currentSpeed,
                   fbConfig, isMockMode, db, nEdits, nErrors, nPushes,
                   nToggles, sessionFresh>>
    /\ remoteDb' = RemoteSet(call.branch, success, remoteDb, call.telemetry)
    /\ UNCHANGED announcer

\* The 2 s timer of a successful send runs
StatusTimer ==
    /\ pendingTimers > 0
    /\ pendingTimers' = pendingTimers - 1
    /\ statusMessage' = "Tracking Active"
    /\ statusType' = "normal"
    /\ lastEvent' = [kind |-> "timer"]
    /\ UNCHANGED <<device, settingsStore>>
    /\ UNCHANGED <<clock, geolocation, busId, isSetupComplete, isTracking,
                   watchIdRef, activeWatches, nextWatchId, lastSentLocationRef,
                   lastSentTimeRef, lastLocation, currentSpeed, logs, inflight,
                   fbConfig, isMockMode, db, mockDb, appended, nEdits, nErrors,
                   nPushes, nToggles, sessionFresh>>
    /\ UNCHANGED <<remoteDb, announcer>>

\* Variant of the platform call that cancels nothing
clearWatchLeaks(watches, id) == watches

\* navigator.geolocation.clearWatch(id), guarded by id !== null
clearWatch(watches, id) == IF id # NULL THEN watches \ {id} ELSE watches

\* The body of the tracking effect, run after its cleanup: id is
\* watchIdRef.current, watches and next the platform's subscriptions
TrackingEffect(tracking, supported, id, watches, next, msg, type) ==
    IF tracking
    THEN IF ~supported
         THEN [watchIdRef |-> id, activeWatches |-> watches, nextWatchId |-> next,
               statusMessage |-> "GPS Not Supported", statusType |-> type,
               entries |-> <<[type |-> "error", message |-> "Navigator.geolocation missing"]>>]
         ELSE [watchIdRef |-> WatchHandle(next),
               activeWatches |-> watches \cup {WatchHandle(next)},
               nextWatchId |-> next + 1,
               statusMessage |-> msg, statusType |-> type,
               entries |-> <<[type |-> "info", message |-> "Starting GPS Watch..."]>>]
    ELSE IF id # NULL
         THEN [watchIdRef |-> NULL, activeWatches |-> clearWatch(watches, id),
               nextWatchId |-> next,
               statusMessage |-> "Tracking Paused", statusType |-> "normal",
               entries |-> <<[type |-> "info", message |-> "Tracking Stopped"]>>]
         ELSE [watchIdRef |-> id, activeWatches |-> watches, nextWatchId |-> next,
               statusMessage |-> msg, statusType |-> type, entries |-> <<>>]

\* addLog for each entry in turn
RECURSIVE addLogs(_, _)
addLogs(prev, entries) ==
    IF entries = <<>> THEN prev
    ELSE addLogs(addLog(prev, Head(entries).type, Head(entries).message), Tail(entries))

\* toggleTracking (the button of the dashboard) and the effects its render
\* runs: the cleanup of the tracking effect, the initializeFirebase effect,
\* the tracking effect
toggleTracking ==
    /\ isSetupComplete
    /\ nToggles < MaxToggles
    /\ nPushes + nToggles + nEdits + nErrors + nBacks + nReports < MaxEvents
    /\ LET newState == ~isTracking
           cleared == clearWatch(activeWatches, watchIdRef)
           fb == initializeFirebase(fbConfig, db)
           ui == InitEffect(fb, newState, statusMessage, statusType, logs)
           tr == TrackingEffect(newState, geolocation, watchIdRef, cleared,
                                nextWatchId, ui.statusMessage, ui.statusType)
       IN  /\ isTracking' = newState
           /\ isMockMode' = fb.isMockMode
           /\ db' = fb.db
           /\ watchIdRef' = tr.watchIdRef
           /\ activeWatches' = tr.activeWatches
           /\ nextWatchId' = tr.nextWatchId
           /\ statusMessage' = tr.statusMessage
           /\ statusType' = tr.statusType
           /\ logs' = addLogs(ui.logs, tr.entries)
           /\ appended' = LoggedAll(Logged(appended, ui.entry), tr.entries)
           /\ sessionFresh' = newState
    /\ nToggles' = nToggles + 1
    /\ lastEvent' = [kind |-> "toggle", on |-> ~isTracking]
    /\ UNCHANGED <<device, settingsStore>>
    /\ UNCHANGED <<clock, geolocation, busId, isSetupComplete,
                   lastSentLocationRef, lastSentTimeRef, lastLocation,
                   currentSpeed, inflight, pendingTimers, fbConfig, mockDb,
                   nEdits, nErrors, nPushes>>
    /\ UNCHANGED <<remoteDb, announcer>>

\* START SHIFT, enabled once the bus identifier has three characters
startShift ==
    /\ ~isSetupComplete
    /\ ~(busId = "" \/ Len(busId) < MinBusIdLength)
    /\ isSetupComplete' = TRUE
    /\ lastEvent' = [kind |-> "startShift"]
    /\ UNCHANGED <<device, settingsStore>>
    /\ UNCHANGED <<clock, geolocation, busId, isTracking, watchIdRef,
                   activeWatches, nextWatchId, lastSentLocationRef,
                   lastSentTimeRef, lastLocation, currentSpeed, statusMessage,
                   statusType, logs, inflight, pendingTimers, fbConfig,
                   isMockMode, db, mockDb, appended, nEdits, nErrors, nPushes,
                   nToggles, sessionFresh>>
    /\ UNCHANGED <<remoteDb, announcer>>

Next ==
    \/ startShift
    \/ \E fix \in Fixes, now \in Instants : processPosition(fix, now)
    \/ \E call \in inflight, success \in BOOLEAN, now \in Instants :
           PushResolves(call, success, now)
    \/ StatusTimer
    \/ toggleTracking

Spec == Init /\ [][Next]_vars

-----------------------------------------------------------------------------
(* A stationary device with tracking left on and a sink that accepts every *)
(* record                                                                  *)

StartTracking == ~isTracking /\ toggleTracking

\* Every fix has the coordinates of the one before it
StationaryFix ==
    \E fix \in Fixes, now \in Instants :
        /\ lastLocation \in {NULL, fix}
        /\ processPosition(fix, now)

PushSucceeds ==
    \E call \in inflight, now \in Instants : PushResolves(call, TRUE, now)

HeartbeatNext ==
    \/ startShift
    \/ StartTracking
    \/ StationaryFix
    \/ PushSucceeds
    \/ StatusTimer

\* Fixes keep arriving and every call to the sink is answered
SpecHeartbeat ==
    /\ Init
    /\ [][HeartbeatNext]_vars
    /\ WF_vars(StationaryFix)
    /\ WF_vars(PushSucceeds)

-----------------------------------------------------------------------------
(* The whole shift: the setup screen, the server settings and the errors of *)
(* the position stream, with the handlers above                             *)

\* END SHIFT: back to the setup screen; nothing else is touched
endShift ==
    /\ isSetupComplete
    /\ isSetupComplete' = FALSE
    /\ lastEvent' = [kind |-> "endShift"]
    /\ UNCHANGED <<device, settingsStore>>
    /\ UNCHANGED <<clock, geolocation, busId, isTracking, watchIdRef,
                   activeWatches, nextWatchId, lastSentLocationRef,
                   lastSentTimeRef, lastLocation, currentSpeed, statusMessage,
                   statusType, logs, inflight, pendingTimers, fbConfig,
                   isMockMode, db, mockDb, appended, nEdits, nErrors, nPushes,
                   nToggles, sessionFresh>>
    /\ UNCHANGED <<remoteDb, announcer>>

\* setBusId with a new value.  processPosition is rebuilt around the new
\* busId, so the tracking effect is cleaned up and run again
BusIdChanged(id) ==
    /\ busId' = id
    /\ LET cleared == clearWatch(activeWatches, watchIdRef)
           tr == TrackingEffect(isTracking, geolocation, watchIdRef, cleared,
                                nextWatchId, statusMessage, statusType)
       IN  /\ watchIdRef' = tr.watchIdRef
           /\ activeWatches' = tr.activeWatches
           /\ nextWatchId' = tr.nextWatchId
           /\ statusMessage' = tr.statusMessage
           /\ statusType' = tr.statusType
           /\ logs' = addLogs(logs, tr.entries)
           /\ appended' = LoggedAll(appended, tr.entries)
    /\ UNCHANGED device
    /\ UNCHANGED <<clock, geolocation, isSetupComplete, isTracking,
                   lastSentLocationRef, lastSentTimeRef, lastLocation,
                   currentSpeed, inflight, pendingTimers, fbConfig, isMockMode,
                   db, mockDb, nErrors, nPushes, nToggles, sessionFresh>>

\* onChange of the bus identifier field of the setup screen, and the effect
\* that keeps it: localStorage.setItem('omni_bus_id', busId)
setBusId(id) ==
    /\ ~isSetupComplete
    /\ nEdits < MaxEdits
    /\ nPushes + nToggles + nEdits + nErrors + nBacks + nReports < MaxEvents
    /\ id # busId
    /\ BusIdChanged(id)
    /\ storedBusId' = id
    /\ nEdits' = nEdits + 1
    /\ lastEvent' = [kind |-> "setBusId"]
    /\ UNCHANGED <<storageOps, launchedWith>>
    /\ UNCHANGED <<remoteDb, announcer>>

\* onChange of a field of the server settings (setup screen): the
\* initializeFirebase effect runs again
FbConfigChanged(config) ==
    /\ fbConfig' = config
    /\ LET fb == initializeFirebase(config, db)
           ui == InitEffect(fb, isTracking, statusMessage, statusType, logs)
       IN  /\ isMockMode' = fb.isMockMode
           /\ db' = fb.db
           /\ statusMessage' = ui.statusMessage
           /\ statusType' = ui.statusType
           /\ logs' = ui.logs
           /\ appended' = Logged(appended, ui.entry)
    /\ nEdits' = nEdits + 1
    /\ lastEvent' = [kind |-> "setFbConfig"]
    /\ UNCHANGED <<device, settingsStore>>
    /\ UNCHANGED <<clock, geolocation, busId, isSetupComplete, isTracking,
                   watchIdRef, activeWatches, nextWatchId, lastSentLocationRef,
                   lastSentTimeRef, lastLocation, currentSpeed, inflight,
                   pendingTimers, mockDb, nErrors, nPushes, nToggles,
                   sessionFresh>>
    /\ UNCHANGED <<remoteDb, announcer>>

setFbConfig(config) ==
    /\ ~isSetupComplete
    /\ nEdits < MaxEdits
    /\ nPushes + nToggles + nEdits + nErrors + nBacks + nReports < MaxEvents
    /\ FbConfigChanged(config)

\* Variant of the error callback that forgets the subscription it reports on
WatchAfterErrorForgets(id) == NULL

\* watchIdRef.current after the error callback, which does not touch it
WatchAfterError(id) == id

\* The error callback of watchPosition.  After some errors (permission
\* withdrawn) the platform serves the subscription no longer: terminal
watchError(watch, terminal) ==
    /\ watch \in activeWatches
    /\ nErrors < MaxErrors
    /\ nPushes + nToggles + nEdits + nErrors + nBacks + nReports < MaxEvents
    /\ activeWatches' = IF terminal THEN activeWatches \ {watch} ELSE activeWatches
    /\ statusMessage' = "GPS Error"
    /\ statusType' = "error"
    /\ logs' = addLog(logs, "error", "GPS Error")
    /\ appended' = Logged(appended, [type |-> "error", message |-> "GPS Error"])
    /\ watchIdRef' = WatchAfterError(watchIdRef)
    /\ nErrors' = nErrors + 1
    /\ lastEvent' = [kind |-> "watchError", terminal |-> terminal]
    /\ UNCHANGED <<device, settingsStore>>
    /\ UNCHANGED <<clock, geolocation, busId, isSetupComplete, isTracking,
                   nextWatchId, lastSentLocationRef,
                   lastSentTimeRef, lastLocation, currentSpeed, inflight,
                   pendingTimers, fbConfig, isMockMode, db, mockDb, nEdits,
                   nPushes, nToggles, sessionFresh>>
    /\ UNCHANGED <<remoteDb, announcer>>

\* The shift is followed with two positions 21 m apart and two instants
\* 30001 ms apart
SessionFixes == {fix \in Fixes : fix.lng = 0}
SessionInstants == {now \in Instants : now # FirstInstant + HeartbeatMs}

SessionNext ==
    \/ \E id \in BusIds : setBusId(id)
    \/ \E config \in Configs : setFbConfig(config)
    \/ startShift
    \/ endShift
    \/ toggleTracking
    \/ \E watch \in activeWatches, terminal \in BOOLEAN : watchError(watch, terminal)
    \/ \E fix \in SessionFixes, now \in SessionInstants : processPosition(fix, now)
    \/ \E call \in inflight, success \in BOOLEAN, now \in SessionInstants :
           PushResolves(call, success, now)
    \/ StatusTimer

SpecSession == Init /\ [][SessionNext]_vars

-----------------------------------------------------------------------------
(* The status log over a long stay on the server settings: every key typed  *)
(* into a field runs the initializeFirebase effect, which logs its outcome  *)

\* A key typed that leaves the settings as usable as they were
typeSettings ==
    /\ ~isSetupComplete
    /\ nEdits < MaxKeystrokes
    /\ FbConfigChanged(fbConfig)

LogNext == typeSettings

SpecLog == Init /\ [][LogNext]_vars

-----------------------------------------------------------------------------
(* The device around the dashboard: its battery, its back button, and the   *)
(* direction chosen at setup                                                *)

\* updateBattery of the battery monitor: setBatteryLevel(battery.level * 100)
\* and setIsCharging(battery.charging), with the level in hundredths.
\* processPosition is rebuilt around a new value, so the tracking effect is
\* cleaned up and run again
updateBattery(report) ==
    /\ nReports < MaxReports
    /\ nPushes + nToggles + nEdits + nErrors + nBacks + nReports < MaxEvents
    /\ batteryLevel' = report.level
    /\ isCharging' = report.charging
    /\ IF batteryLevel' # batteryLevel \/ isCharging' # isCharging
       THEN LET cleared == clearWatch(activeWatches, watchIdRef)
                tr == TrackingEffect(isTracking, geolocation, watchIdRef, cleared,
                                     nextWatchId, statusMessage, statusType)
            IN  /\ watchIdRef' = tr.watchIdRef
                /\ activeWatches' = tr.activeWatches
                /\ nextWatchId' = tr.nextWatchId
                /\ statusMessage' = tr.statusMessage
                /\ statusType' = tr.statusType
                /\ logs' = addLogs(logs, tr.entries)
                /\ appended' = LoggedAll(appended, tr.entries)
       ELSE UNCHANGED <<watchIdRef, activeWatches, nextWatchId, statusMessage,
                        statusType, logs, appended>>
    /\ nReports' = nReports + 1
    /\ lastEvent' = [kind |-> "updateBattery"]
    /\ UNCHANGED <<direction, nBacks, settingsStore>>
    /\ UNCHANGED <<clock, geolocation, busId, isSetupComplete, isTracking,
                   lastSentLocationRef, lastSentTimeRef, lastLocation,
                   currentSpeed, inflight, pendingTimers, fbConfig, isMockMode,
                   db, mockDb, nEdits, nErrors, nPushes, nToggles, sessionFresh>>
    /\ UNCHANGED <<remoteDb, announcer>>

\* The direction buttons of the setup screen.  processPosition is rebuilt
\* around the new direction, so the tracking effect is cleaned up and run again
setDirection(dir) ==
    /\ ~isSetupComplete
    /\ nEdits < MaxEdits
    /\ nPushes + nToggles + nEdits + nErrors + nBacks + nReports < MaxEvents
    /\ dir # direction
    /\ direction' = dir
    /\ LET cleared == clearWatch(activeWatches, watchIdRef)
           tr == TrackingEffect(isTracking, geolocation, watchIdRef, cleared,
                                nextWatchId, statusMessage, statusType)
       IN  /\ watchIdRef' = tr.watchIdRef
           /\ activeWatches' = tr.activeWatches
           /\ nextWatchId' = tr.nextWatchId
           /\ statusMessage' = tr.statusMessage
           /\ statusType' = tr.statusType
           /\ logs' = addLogs(logs, tr.entries)
           /\ appended' = LoggedAll(appended, tr.entries)
    /\ nEdits' = nEdits + 1
    /\ lastEvent' = [kind |-> "setDirection"]
    /\ UNCHANGED <<batteryLevel, isCharging, nBacks, nReports, settingsStore>>
    /\ UNCHANGED <<clock, geolocation, busId, isSetupComplete, isTracking,
                   lastSentLocationRef, lastSentTimeRef, lastLocation,
                   currentSpeed, inflight, pendingTimers, fbConfig, isMockMode,
                   db, mockDb, nErrors, nPushes, nToggles, sessionFresh>>
    /\ UNCHANGED <<remoteDb, announcer>>

\* Variant of the back handler that leaves the dashboard whatever the
\* tracking state
handlePopStateAlwaysLeaves(tracking, msg, prev) ==
    [isSetupComplete |-> FALSE, statusMessage |-> msg, logs |-> prev, entries |-> <<>>]

\* handlePopState: what a press of the back button leaves behind
handlePopState(tracking, msg, prev) ==
    IF tracking
    THEN [isSetupComplete |-> TRUE, statusMessage |-> "Stop tracking first!",
          logs |-> addLog(prev, "warning", "Back button pressed while tracking"),
          entries |-> <<[type |-> "warning",
                         message |-> "Back button pressed while tracking"]>>]
    ELSE [isSetupComplete |-> FALSE, statusMessage |-> msg, logs |-> prev,
          entries |-> <<>>]

\* The back button; the listener is registered while the dashboard is shown
backButton ==
    /\ isSetupComplete
    /\ nBacks < MaxBacks
    /\ nPushes + nToggles + nEdits + nErrors + nBacks + nReports < MaxEvents
    /\ LET back == handlePopState(isTracking, statusMessage, logs)
       IN  /\ isSetupComplete' = back.isSetupComplete
           /\ statusMessage' = back.statusMessage
           /\ logs' = back.logs
           /\ appended' = LoggedAll(appended, back.entries)
    /\ nBacks' = nBacks + 1
    /\ lastEvent' = [kind |-> "back", tracking |-> isTracking]
    /\ UNCHANGED <<direction, batteryLevel, isCharging, nReports, settingsStore>>
    /\ UNCHANGED <<clock, geolocation, busId, isTracking, watchIdRef,
                   activeWatches, nextWatchId, lastSentLocationRef,
                   lastSentTimeRef, lastLocation, currentSpeed, statusType,
                   inflight, pendingTimers, fbConfig, isMockMode, db, mockDb,
                   nEdits, nErrors, nPushes, nToggles, sessionFresh>>
    /\ UNCHANGED <<remoteDb, announcer>>

DeviceNext ==
    \/ \E dir \in Directions : setDirection(dir)
    \/ \E report \in BatteryStates : updateBattery(report)
    \/ startShift
    \/ endShift
    \/ backButton
    \/ toggleTracking
    \/ \E fix \in SessionFixes, now \in SessionInstants : processPosition(fix, now)
    \/ \E call \in inflight, success \in BOOLEAN, now \in SessionInstants :
           PushResolves(call, success, now)
    \/ StatusTimer

SpecDevice == Init /\ [][DeviceNext]_vars

-----------------------------------------------------------------------------
(* The launch of the native build: busId starts empty, loadStoredData reads *)
(* the settings store through AsyncStorage, and the persistence effect has  *)
(* already asked it to keep the empty busId.  AsyncStorage answers later,   *)
(* and nothing in the app orders its calls                                  *)

GetItem == [op |-> "getItem"]
SetItem(value) == [op |-> "setItem", value |-> value]

\* The mount effects have run: loadStoredData waits for getItem, and
\* setItem('omni_bus_id', "") is under way
NativeInit ==
    \E config \in Configs, stored \in BusIds, supported \in BOOLEAN :
        /\ Mounted(config, "", supported)
        /\ storedBusId = stored
        /\ storageOps = {GetItem, SetItem("")}
        /\ launchedWith = stored

\* if (storedBusId) setBusId(storedBusId)
LoadedBusId(stored, bus) == IF stored # "" THEN stored ELSE bus

\* getItem answers with what the store holds now, and loadStoredData goes on
getItemCompletes ==
    /\ GetItem \in storageOps
    /\ LET loaded == LoadedBusId(storedBusId, busId)
       IN  IF loaded # busId
           THEN /\ BusIdChanged(loaded)
                /\ storageOps' = (storageOps \ {GetItem}) \cup {SetItem(loaded)}
           ELSE /\ storageOps' = storageOps \ {GetItem}
                /\ UNCHANGED device
                /\ UNCHANGED <<clock, geolocation, busId, isSetupComplete,
                               isTracking, watchIdRef, activeWatches, nextWatchId,
                               lastSentLocationRef, lastSentTimeRef, lastLocation,
                               currentSpeed, statusMessage, statusType, logs,
                               inflight, pendingTimers, fbConfig, isMockMode, db,
                               mockDb, appended, nErrors, nPushes, nToggles,
                               sessionFresh>>
    /\ lastEvent' = [kind |-> "loadStoredData"]
    /\ UNCHANGED <<storedBusId, launchedWith, nEdits>>
    /\ UNCHANGED <<remoteDb, announcer>>

\* A setItem call reaches the store
setItemCompletes(call) ==
    /\ call \in storageOps
    /\ call.op = "setItem"
    /\ storedBusId' = call.value
    /\ storageOps' = storageOps \ {call}
    /\ lastEvent' = [kind |-> "setItem"]
    /\ UNCHANGED device
    /\ UNCHANGED <<clock, geolocation, busId, isSetupComplete, isTracking,
                   watchIdRef, activeWatches, nextWatchId, lastSentLocationRef,
                   lastSentTimeRef, lastLocation, currentSpeed, statusMessage,
                   statusType, logs, inflight, pendingTimers, fbConfig,
                   isMockMode, db, mockDb, appended, launchedWith, nEdits,
                   nErrors, nPushes, nToggles, sessionFresh>>
    /\ UNCHANGED <<remoteDb, announcer>>

\* onChangeText of the bus identifier field, and the effect that keeps it:
\* AsyncStorage.setItem('omni_bus_id', busId)
setBusIdNative(id) ==
    /\ ~isSetupComplete
    /\ nEdits < MaxEdits
    /\ nPushes + nToggles + nEdits + nErrors + nBacks + nReports < MaxEvents
    /\ id # busId
    /\ BusIdChanged(id)
    /\ storageOps' = storageOps \cup {SetItem(id)}
    /\ nEdits' = nEdits + 1
    /\ lastEvent' = [kind |-> "setBusId"]
    /\ UNCHANGED <<storedBusId, launchedWith>>
    /\ UNCHANGED <<remoteDb, announcer>>

NativeNext ==
    \/ getItemCompletes
    \/ \E call \in storageOps : setItemCompletes(call)
    \/ \E id \in BusIds : setBusIdNative(id)
    \/ startShift
    \/ endShift

SpecNative == NativeInit /\ [][NativeNext]_vars

-----------------------------------------------------------------------------
(* Distances: a bus that moves over the fixes around the origin, with a     *)
(* sink that answers every record at once and accepts it, so that           *)
(* getDistanceInMeters is applied to the pairs of these fixes               *)

\* A fix of the grid arrives, no call being outstanding
GeoFix ==
    \E fix \in GeoFixes :
        /\ inflight = {}
        /\ processPosition(fix, clock)

GeoPushSucceeds ==
    \E call \in inflight : PushResolves(call, TRUE, clock)

GeoNext ==
    \/ startShift
    \/ StartTracking
    \/ GeoFix
    \/ GeoPushSucceeds
    \/ StatusTimer

SpecGeo == Init /\ [][GeoNext]_vars

-----------------------------------------------------------------------------
(* The subscription while the fix handler is replaced: the battery reports, *)
(* and the driver goes back to the setup screen with tracking left on and   *)
(* edits the bus identifier or the direction                                *)

\* A fix arrives, no call being outstanding
QuietFix ==
    \E fix \in SessionFixes :
        /\ inflight = {}
        /\ processPosition(fix, clock)

ResubscribeNext ==
    \/ \E id \in BusIds : setBusId(id)
    \/ \E dir \in Directions : setDirection(dir)
    \/ \E report \in BatteryStates : updateBattery(report)
    \/ startShift
    \/ endShift
    \/ toggleTracking
    \/ QuietFix
    \/ GeoPushSucceeds
    \/ StatusTimer

SpecResubscribe == Init /\ [][ResubscribeNext]_vars

-----------------------------------------------------------------------------
(* The incident dialog of the dashboard: the driver types what happens, the *)
(* generator writes an announcement, and the driver copies it or asks for a *)
(* new one                                                                  *)

\* What the driver types: a text is the sequence of its characters
IncidentTexts == {<<>>, <<" ">>, <<" ", " ">>, <<"f", "l", "a", "t">>,
                  <<" ", "f", "l", "a", "t", " ">>}

\* What happens to a request: process.env.API_KEY is missing, generateContent
\* throws, the reply has no text, the reply has a text
GeneratorOutcomes == {"noKey", "failure", "empty", "text"}

\* The text of a reply that has one
ReplyText == "We have a flat tyre and will be ten minutes late."

RECURSIVE TrimStart(_)
TrimStart(text) ==
    IF text # <<>> /\ Head(text) = " " THEN TrimStart(Tail(text)) ELSE text

RECURSIVE TrimEnd(_)
TrimEnd(text) ==
    IF text # <<>> /\ text[Len(text)] = " "
    THEN TrimEnd(SubSeq(text, 1, Len(text) - 1))
    ELSE text

\* String.prototype.trim
Trim(text) == TrimEnd(TrimStart(text))

\* How a promise settles
Resolved(value) == [rejected |-> FALSE, value |-> value]
Rejected(error) == [rejected |-> TRUE, value |-> error]

\* Variant that calls getAiClient before its try block
generateAnnouncementKeyOutsideTry(outcome) ==
    CASE outcome = "noKey" -> Rejected("API Key not found")
      [] outcome = "failure" ->
            Resolved("Error generating announcement. Please check your connection.")
      [] outcome = "empty" -> Resolved("Unable to generate announcement.")
      [] OTHER -> Resolved(ReplyText)

\* generateAnnouncement: getAiClient and generateContent are inside the try
\* block, and the catch block returns the error message
generateAnnouncement(outcome) ==
    CASE outcome \in {"noKey", "failure"} ->
            Resolved("Error generating announcement. Please check your connection.")
      [] outcome = "empty" -> Resolved("Unable to generate announcement.")
      [] OTHER -> Resolved(ReplyText)

\* What the dialog leaves alone, but for the status line
behindDialog == <<clock, geolocation, busId, isSetupComplete, isTracking,
                  watchIdRef, activeWatches, nextWatchId, lastSentLocationRef,
                  lastSentTimeRef, lastLocation, currentSpeed, logs, inflight,
                  pendingTimers, fbConfig, isMockMode, db, mockDb, appended,
                  remoteDb, device, settingsStore, nEdits, nErrors, nPushes,
                  nToggles, sessionFresh>>

\* The "Broadcast Incident" button of the dashboard
openIncidentModal ==
    /\ isSetupComplete
    /\ ~showIncidentModal
    /\ showIncidentModal' = TRUE
    /\ lastEvent' = [kind |-> "openIncident"]
    /\ UNCHANGED <<incidentText, generatedMsg, isGenerating, aiCalls>>
    /\ UNCHANGED <<behindDialog, statusMessage, statusType>>

\* The X button of the dialog
closeIncidentModal ==
    /\ isSetupComplete
    /\ showIncidentModal
    /\ showIncidentModal' = FALSE
    /\ lastEvent' = [kind |-> "closeIncident"]
    /\ UNCHANGED <<incidentText, generatedMsg, isGenerating, aiCalls>>
    /\ UNCHANGED <<behindDialog, statusMessage, statusType>>

\* The text area, shown while no announcement is
setIncidentText(text) ==
    /\ isSetupComplete
    /\ showIncidentModal
    /\ generatedMsg = ""
    /\ text # incidentText
    /\ incidentText' = text
    /\ lastEvent' = [kind |-> "type"]
    /\ UNCHANGED <<generatedMsg, isGenerating, showIncidentModal, aiCalls>>
    /\ UNCHANGED <<behindDialog, statusMessage, statusType>>

\* handleAiGeneration up to its await; the "Generate Alert" button is shown
\* while no announcement is, and disabled while isGenerating || !incidentText
handleAiGeneration ==
    /\ isSetupComplete
    /\ showIncidentModal
    /\ generatedMsg = ""
    /\ ~isGenerating
    /\ incidentText # <<>>
    /\ IF Trim(incidentText) = <<>>
       THEN /\ lastEvent' = [kind |-> "generate", started |-> FALSE]
            /\ UNCHANGED <<generatedMsg, isGenerating, aiCalls>>
       ELSE /\ lastEvent' = [kind |-> "generate", started |-> TRUE]
            /\ isGenerating' = TRUE
            /\ generatedMsg' = ""
            /\ aiCalls' = aiCalls \cup {[situation |-> incidentText]}
    /\ UNCHANGED <<incidentText, showIncidentModal>>
    /\ UNCHANGED <<behindDialog, statusMessage, statusType>>

\* handleAiGeneration from its await on: the promise of generateAnnouncement
\* settles; a rejection ends the handler there
announcementSettles(call, outcome) ==
    /\ call \in aiCalls
    /\ aiCalls' = aiCalls \ {call}
    /\ LET result == generateAnnouncement(outcome)
       IN  /\ lastEvent' = [kind |-> "announcement", outcome |-> outcome,
                            rejected |-> result.rejected]
           /\ IF result.rejected
              THEN UNCHANGED <<generatedMsg, isGenerating>>
              ELSE /\ generatedMsg' = result.value
                   /\ isGenerating' = FALSE
    /\ UNCHANGED <<incidentText, showIncidentModal>>
    /\ UNCHANGED <<behindDialog, statusMessage, statusType>>

\* The "Copy" button, shown with an announcement; writeText throws where the
\* browser has no clipboard, and the handler ends there
copyAnnouncement(clipboard) ==
    /\ isSetupComplete
    /\ showIncidentModal
    /\ generatedMsg # ""
    /\ lastEvent' = [kind |-> "copy", copied |-> clipboard]
    /\ IF clipboard
       THEN /\ showIncidentModal' = FALSE
            /\ generatedMsg' = ""
            /\ statusMessage' = "Copied to Clipboard"
            /\ statusType' = "success"
       ELSE UNCHANGED <<showIncidentModal, generatedMsg, statusMessage, statusType>>
    /\ UNCHANGED <<incidentText, isGenerating, aiCalls>>
    /\ UNCHANGED behindDialog

\* The "New" button, shown with an announcement
newAnnouncement ==
    /\ isSetupComplete
    /\ showIncidentModal
    /\ generatedMsg # ""
    /\ generatedMsg' = ""
    /\ lastEvent' = [kind |-> "new"]
    /\ UNCHANGED <<incidentText, isGenerating, showIncidentModal, aiCalls>>
    /\ UNCHANGED <<behindDialog, statusMessage, statusType>>

\* Some request is answered
AnnouncementArrives ==
    \E call \in aiCalls, outcome \in GeneratorOutcomes :
        announcementSettles(call, outcome)

AnnounceNext ==
    \/ startShift
    \/ endShift
    \/ openIncidentModal
    \/ closeIncidentModal
    \/ \E text \in IncidentTexts : setIncidentText(text)
    \/ handleAiGeneration
    \/ AnnouncementArrives
    \/ \E clipboard \in BOOLEAN : copyAnnouncement(clipboard)
    \/ newAnnouncement

\* The generator answers every request, with a reply or with an error
SpecAnnounce ==
    /\ Init
    /\ [][AnnounceNext]_vars
    /\ WF_vars(AnnouncementArrives)

-----------------------------------------------------------------------------
(* Vocabulary of the properties *)

\* The step is a pushTelemetry call resolving: only PushResolves removes a call
ResolveStep == inflight' # inflight /\ inflight' \subseteq inflight
ResolvedCall == CHOOSE call \in inflight : call \notin inflight'

\* The step starts a pushTelemetry call: only processPosition adds one
PushStep == ~(inflight' \subseteq inflight)
StartedCall == CHOOSE call \in inflight' : call \notin inflight

\* The last handler was processPosition; the fix it got is lastLocation, the
\* instant it read is clock, and Dispatch Memory is what it read
AfterFix == lastEvent.kind = "fix"
MemoryEmpty == lastSentLocationRef = NULL
MovedCm == DistanceMoved[lastSentLocationRef, lastLocation]
ElapsedMs == clock - lastSentTimeRef

-----------------------------------------------------------------------------
(* Properties *)

C2_AtMostOneOutstanding == Cardinality(inflight) <= 1

\* C3: every write to lastSentTimeRef stores a value greater than or equal to
\* the one it replaces.
C3_LastSentTimeNonDecreasing == [][lastSentTimeRef' >= lastSentTimeRef]_vars

\* C4: the first fix after tracking is toggled on is sent, whatever was sent
\* in an earlier session.
C4_FirstFixOfSessionIsSent == (AfterFix /\ lastEvent.first) => lastEvent.shouldSend

\* C5: with a non-empty memory a fix is sent if and only if it is more than
\* 20 m from lastSentLocationRef or more than 30000 ms after lastSentTimeRef;
\* with an empty memory it is sent.
C5_SendIffOverThreshold ==
    AfterFix =>
        (lastEvent.shouldSend <=>
            \/ MemoryEmpty
            \/ MovedCm > 20 * Precision
            \/ ElapsedMs > 30000)

C5_Witness ==
    /\ AfterFix
    /\ ~MemoryEmpty
    /\ MovedCm > 20 * Precision
    /\ ElapsedMs <= 30000
    /\ lastEvent.shouldSend

\* C6: a fix that meets an empty memory is sent, with distanceMoved = 0,
\* whatever its coordinates and the instant.
C6_EmptyMemorySends ==
    (AfterFix /\ MemoryEmpty) => (lastEvent.shouldSend /\ lastEvent.distanceMoved = 0)

C6_Witness ==
    /\ AfterFix
    /\ lastEvent.first
    /\ MemoryEmpty
    /\ lastLocation # [lat |-> 0, lng |-> 0]
    /\ clock > FirstInstant

\* C7: both thresholds are strict: a fix at most 20 m from lastSentLocationRef
\* and at most 30000 ms after lastSentTimeRef is not sent.
C7_ThresholdsAreStrict ==
    (AfterFix /\ ~MemoryEmpty /\ MovedCm <= 20 * Precision /\ ElapsedMs <= 30000)
        => ~lastEvent.shouldSend

C7_Witness ==
    /\ AfterFix
    /\ ~MemoryEmpty
    /\ MovedCm = 20 * Precision
    /\ ElapsedMs = 30000
    /\ ~lastEvent.shouldSend

\* C8: with tracking left on, a stationary device, fixes that keep arriving
\* and a sink that accepts every record, a fix that arrives more than 30000 ms
\* after lastSentTimeRef starts a call to the sink, and a send recorded at
\* instant t is followed by a send recorded at a later instant, as long as the
\* clock of the model has an instant more than 30000 ms after t left and the
\* run has a call left.
C8_HeartbeatRecurs ==
    /\ []((AfterFix /\ ~MemoryEmpty /\ ElapsedMs > 30000)
            => (lastEvent.shouldSend /\ inflight # {}))
    /\ \A t \in Instants :
          (/\ isTracking
           /\ ~MemoryEmpty
           /\ lastSentTimeRef = t
           /\ \E u \in Instants : u - t > 30000
           /\ nPushes < MaxPushes)
          ~> (lastSentTimeRef > t)

C8_Witness ==
    /\ AfterFix
    /\ ~MemoryEmpty
    /\ lastLocation = lastSentLocationRef
    /\ ElapsedMs > 30000
    /\ lastEvent.shouldSend
    /\ inflight # {}

C10_PushOnlyOnDecision ==
    [][/\ PushStep =>
            /\ lastEvent'.kind = "fix"
            /\ \/ MemoryEmpty
               \/ DistanceMoved[lastSentLocationRef, lastLocation'] > 20 * Precision
               \/ clock' - lastSentTimeRef > 30000
       /\ (lastEvent'.kind = "fix" /\ ~lastEvent'.shouldSend)
            => (inflight' = inflight /\ nPushes' = nPushes)]_vars

C10_Witness ==
    /\ AfterFix
    /\ ~lastEvent.shouldSend
    /\ nPushes > 0
    /\ inflight = {}

\* C11: while tracking is off no subscription to the position stream is
\* active and watchIdRef holds none, and a fix reaches processPosition only
\* while tracking is on.
C11_IdleHasNoSubscription ==
    /\ ~isTracking => (activeWatches = {} /\ watchIdRef = NULL)
    /\ AfterFix => isTracking

C11_Witness ==
    /\ ~isTracking
    /\ lastEvent.kind = "toggle"
    /\ lastLocation # NULL
    /\ nextWatchId > 1

\* C12: the log never holds more than 50 entries, however many addLog has
\* been called with.
C12_LogAtMostFifty == Len(logs) <= 50

C12_Witness ==
    /\ Len(appended) > 50
    /\ Len(logs) = 50

\* C13: after n calls of addLog the log is the last min(n, 50) entries it was
\* called with, in the order of the calls and as they were made.
C13_LogIsLastFifty ==
    LET n == Len(appended)
        kept == IF n < 50 THEN n ELSE 50
    IN  /\ Len(logs) = kept
        /\ \A i \in 1..kept : logs[i] = appended[n - kept + i]

C13_Witness ==
    /\ Len(appended) = 60
    /\ logs[1] = appended[11]
    /\ logs[50] = appended[60]

\* C14: after every fix processPosition was called with, the dashboard shows
\* the position of that fix and its speed (0 when the fix has none), whether
\* the fix was sent or not and whether a call to the sink is outstanding or
\* not.
C14_FixUpdatesDashboard ==
    AfterFix =>
        /\ lastLocation = lastEvent.fix
        /\ currentSpeed = IF Speed[lastEvent.fix] = NULL THEN 0
                          ELSE Speed[lastEvent.fix].mps

C14_Witness ==
    /\ AfterFix
    /\ ~lastEvent.shouldSend
    /\ inflight # {}
    /\ currentSpeed = 14
    /\ lastLocation = [lat |-> 21, lng |-> 0]

\* C15 as stated: once initializeFirebase has returned an error (the settings
\* are not the valid ones), every pushTelemetry call made until an
\* initialization succeeds resolves false.  The calls made in that time are
\* those that took the mock branch.
C15_FailedConfigFailsPushes ==
    [][(ResolveStep /\ ResolvedCall.branch = "mock") => ~lastEvent'.success]_vars

\* C15 amended: once initializeFirebase has returned an error the sink is in
\* mock mode, and every pushTelemetry call made until an initialization
\* succeeds resolves true.
C15_FailedConfigMocksPushes ==
    /\ [](fbConfig # "valid" <=> isMockMode)
    /\ [][(PushStep /\ fbConfig # "valid") => StartedCall.branch = "mock"]_vars
    /\ [][(ResolveStep /\ ResolvedCall.branch = "mock") => lastEvent'.success]_vars

C15_Witness ==
    /\ lastEvent.kind = "resolve"
    /\ lastEvent.success
    /\ fbConfig = "missing"
    /\ statusMessage = "Data Synced"

\* C16: in mock mode every pushTelemetry call takes the mock branch, and a
\* call on the mock branch resolves true with its record added at the end of
\* mockDb; no other call touches mockDb.
C16_MockModeStoresAndSucceeds ==
    [][/\ (PushStep /\ isMockMode) => StartedCall.branch = "mock"
       /\ ResolveStep =>
            IF ResolvedCall.branch = "mock"
            THEN /\ lastEvent'.success
                 /\ mockDb' = Append(mockDb, ResolvedCall.telemetry)
            ELSE mockDb' = mockDb]_vars

C16_Witness ==
    /\ lastEvent.kind = "resolve"
    /\ isMockMode
    /\ db = NULL
    /\ Len(mockDb) = 2
    /\ mockDb[1].timestamp < mockDb[2].timestamp
    /\ lastSentLocationRef = [lat |-> mockDb[2].latitude, lng |-> mockDb[2].longitude]

\* C17: a pushTelemetry call that resolves false makes one call of addLog, the
\* entry is an error and is the newest of the log, and isTracking,
\* watchIdRef and the subscription stay as they were.
C17_FailureLogsAndKeepsTracking ==
    [][(ResolveStep /\ ~lastEvent'.success)
        => /\ Len(appended') = Len(appended) + 1
           /\ logs'[Len(logs')] = appended'[Len(appended')]
           /\ logs'[Len(logs')].type = "error"
           /\ SubSeq(logs', 1, Len(logs') - 1) = SliceLast(logs, Len(logs') - 1)
           /\ isTracking' = isTracking
           /\ watchIdRef' = watchIdRef
           /\ activeWatches' = activeWatches]_vars

C17_Witness ==
    /\ lastEvent.kind = "resolve"
    /\ ~lastEvent.success
    /\ isTracking
    /\ watchIdRef \in activeWatches
    /\ statusMessage = "Sync Failed"

\* C18: once the platform has ended the subscription watchIdRef names,
\* tracking is off.
C18_TerminatedStreamStopsTracking ==
    (watchIdRef # NULL /\ watchIdRef \notin activeWatches) => ~isTracking

\* C19: after tracking was toggled on without navigator.geolocation, the
\* status and the newest log entry report the error, there is no
\* subscription, and tracking is not on.
C19_UnavailableStreamDoesNotStart ==
    (lastEvent.kind = "toggle" /\ lastEvent.on /\ ~geolocation)
        => /\ statusMessage = "GPS Not Supported"
           /\ logs[Len(logs)].type = "error"
           /\ activeWatches = {}
           /\ watchIdRef = NULL
           /\ ~isTracking

\* C20: every record handed to pushTelemetry carries a bus identifier that is
\* not empty.
C20_PushedRecordHasBusId ==
    \A call \in inflight : call.telemetry.busId # ""

\* C21: a record made while the device has reported no battery state carries
\* null as battery level and as charging flag; a record made after a report
\* carries the reported level, as a fraction, and the reported charging flag.
C21_BatteryFieldsFollowDevice ==
    [][PushStep =>
        IF nReports = 0
        THEN /\ StartedCall.telemetry.batteryLevel = NULL
             /\ StartedCall.telemetry.isCharging = NULL
        ELSE /\ StartedCall.telemetry.batteryLevel = [fraction |-> batteryLevel]
             /\ StartedCall.telemetry.isCharging = [charging |-> isCharging]]_vars

\* C22: a pushTelemetry call is started only by a step of processPosition,
\* one call per fix and under an identifier no earlier call had; the step
\* that resolves a call, with success or without, takes it off the
\* outstanding calls and starts none; no other step starts a call.
C22_OnePushPerFixNoRetry ==
    [][/\ PushStep =>
            /\ lastEvent'.kind = "fix"
            /\ Cardinality(inflight' \ inflight) = 1
            /\ inflight \subseteq inflight'
            /\ nPushes' = nPushes + 1
            /\ StartedCall.id = nPushes'
            /\ \A call \in inflight : call.id < StartedCall.id
       /\ lastEvent'.kind = "resolve" =>
            /\ inflight' \subseteq inflight
            /\ Cardinality(inflight') = Cardinality(inflight) - 1
       /\ lastEvent'.kind # "fix" => nPushes' = nPushes]_vars

\* A call failed, and the fix after it started the second call
C22_Witness ==
    /\ AfterFix
    /\ lastEvent.shouldSend
    /\ MemoryEmpty
    /\ nPushes = 2
    /\ Cardinality(inflight) = 1

\* C23 as claimed: while tracking is on, the fix that follows a failed
\* pushTelemetry call starts a new call.
C23_NextFixRetries ==
    [][(/\ lastEvent.kind = "resolve"
        /\ ~lastEvent.success
        /\ isTracking
        /\ lastEvent'.kind = "fix")
        => PushStep]_vars

\* C23: the fix that follows a failed pushTelemetry call starts a new call
\* exactly when it qualifies against the memory the failure left: the memory
\* is empty, or the fix is more than 20 m or more than 30000 ms from the last
\* successful send.
C23_NextQualifyingFixRetries ==
    [][(/\ lastEvent.kind = "resolve"
        /\ ~lastEvent.success
        /\ isTracking
        /\ lastEvent'.kind = "fix")
        => (PushStep <=>
               \/ MemoryEmpty
               \/ DistanceMoved[lastSentLocationRef, lastEvent'.fix]
                      > DistanceThresholdM * Precision
               \/ clock' - lastSentTimeRef > HeartbeatMs)]_vars

\* The newest log entry is the failure of a call, and the fixes since then
\* were too near the last successful send to be sent
C23_Witness ==
    /\ AfterFix
    /\ ~lastEvent.shouldSend
    /\ isTracking
    /\ inflight = {}
    /\ logs[Len(logs)].message = "Firebase sync failed"

C25_BackIsTrappedWhileTracking ==
    [][lastEvent'.kind = "back" =>
        IF isTracking
        THEN /\ isSetupComplete'
             /\ isTracking'
             /\ watchIdRef' = watchIdRef
             /\ activeWatches' = activeWatches
             /\ statusMessage' = "Stop tracking first!"
             /\ Len(appended') = Len(appended) + 1
             /\ appended'[Len(appended')].type = "warning"
             /\ logs'[Len(logs')].type = "warning"
             /\ logs'[Len(logs')].message = "Back button pressed while tracking"
        ELSE /\ ~isSetupComplete'
             /\ ~isTracking'
             /\ appended' = appended]_vars

C25_Witness ==
    /\ lastEvent.kind = "back"
    /\ lastEvent.tracking
    /\ isSetupComplete
    /\ isTracking
    /\ watchIdRef \in activeWatches
    /\ statusMessage = "Stop tracking first!"

\* C26: once the calls on the settings store made at launch have completed,
\* and before the driver edits anything, busId is what the store held when
\* the app was launched.
C26_BusIdSurvivesRestart ==
    (storageOps = {} /\ nEdits = 0) => busId = launchedWith

\* C27: getDistanceInMeters of a fix and the same fix is 0: a fix that has
\* the coordinates of the last one sent is found to have moved 0 m.
C27_DistanceToItselfIsZero ==
    (AfterFix /\ ~MemoryEmpty /\ lastLocation = lastSentLocationRef)
        => /\ lastEvent.distanceMoved = 0
           /\ getDistanceInMeters(lastLocation.lat, lastLocation.lng,
                                  lastLocation.lat, lastLocation.lng) = 0

\* A fix away from the equator and from the meridian came twice
C27_Witness ==
    /\ AfterFix
    /\ ~MemoryEmpty
    /\ lastLocation = lastSentLocationRef
    /\ lastLocation.lat < 0
    /\ lastLocation.lng > 0
    /\ lastEvent.distanceMoved = 0

\* C28: getDistanceInMeters is symmetric: the distance processPosition found
\* from the last fix sent to the new fix is the distance from the new fix to
\* the last one sent, to a hundredth of a metre.
C28_DistanceIsSymmetric ==
    (AfterFix /\ ~MemoryEmpty)
        => LET back == getDistanceInMeters(lastLocation.lat, lastLocation.lng,
                                           lastSentLocationRef.lat,
                                           lastSentLocationRef.lng)
           IN  /\ lastEvent.distanceMoved - back <= 1
               /\ back - lastEvent.distanceMoved <= 1

\* The new fix lies south-west of the last one sent, more than 20 m away
C28_Witness ==
    /\ AfterFix
    /\ ~MemoryEmpty
    /\ lastLocation.lat < lastSentLocationRef.lat
    /\ lastLocation.lng < lastSentLocationRef.lng
    /\ lastEvent.distanceMoved > DistanceThresholdM * Precision

\* C29: the record handed to pushTelemetry carries routeId "alabang-lawton",
\* the latitude, longitude, speed and heading of the fix processPosition was
\* called with, the busId and direction of the component, and as timestamp
\* the instant the elapsed time of the decision was taken from.
C29_RecordCarriesFixAndSession ==
    [][PushStep =>
        /\ StartedCall.telemetry.routeId = "alabang-lawton"
        /\ StartedCall.telemetry.latitude = lastEvent'.fix.lat
        /\ StartedCall.telemetry.longitude = lastEvent'.fix.lng
        /\ StartedCall.telemetry.speed = Speed[lastEvent'.fix]
        /\ StartedCall.telemetry.heading = Heading[lastEvent'.fix]
        /\ StartedCall.telemetry.busId = busId
        /\ StartedCall.telemetry.direction = direction
        /\ StartedCall.telemetry.timestamp = clock'
        /\ (~MemoryEmpty /\ MovedCm' <= DistanceThresholdM * Precision)
               => StartedCall.telemetry.timestamp - lastSentTimeRef > HeartbeatMs]_vars

\* A southbound record of a moving bus is outstanding, sent on the heartbeat
C29_Witness ==
    \E call \in inflight :
        /\ call.telemetry.direction = "southbound"
        /\ call.telemetry.speed # NULL
        /\ call.telemetry.heading # NULL
        /\ call.telemetry.timestamp - lastSentTimeRef > HeartbeatMs
        /\ call.telemetry.timestamp = clock
        /\ AfterFix
        /\ ~MemoryEmpty

\* C30: a pushTelemetry call that resolves with success while tracking is off
\* leaves lastSentLocationRef and lastSentTimeRef as they were.
C30_LateSuccessKeepsMemory ==
    [][(ResolveStep /\ lastEvent'.success /\ ~isTracking)
        => /\ lastSentLocationRef' = lastSentLocationRef
           /\ lastSentTimeRef' = lastSentTimeRef]_vars

\* C31: a call of processPosition that decides not to send changes the shown
\* position and speed only: it starts no pushTelemetry call, adds nothing to
\* the log, leaves the status message and type, and leaves
\* lastSentLocationRef and lastSentTimeRef as they were.
C31_UnsentFixOnlyUpdatesDashboard ==
    [][(lastEvent'.kind = "fix" /\ ~lastEvent'.shouldSend)
        => /\ inflight' = inflight
           /\ nPushes' = nPushes
           /\ logs' = logs
           /\ appended' = appended
           /\ statusMessage' = statusMessage
           /\ statusType' = statusType
           /\ pendingTimers' = pendingTimers
           /\ mockDb' = mockDb
           /\ lastSentLocationRef' = lastSentLocationRef
           /\ lastSentTimeRef' = lastSentTimeRef]_vars

\* A fix 20 m from the last one sent was shown and not sent, the status of
\* the last send still standing
C31_Witness ==
    /\ AfterFix
    /\ ~lastEvent.shouldSend
    /\ lastLocation # lastSentLocationRef
    /\ statusMessage = "Data Synced"
    /\ inflight = {}

\* C32: an error of the position stream while tracking is on adds exactly one
\* entry, of type error, to the log and sets the status type to error; it
\* leaves isTracking, watchIdRef, lastSentLocationRef, lastSentTimeRef and
\* the outstanding pushTelemetry calls as they were.
C32_StreamErrorOnlyReports ==
    [][lastEvent'.kind = "watchError"
        => /\ Len(appended') = Len(appended) + 1
           /\ appended'[Len(appended')].type = "error"
           /\ logs' = addLog(logs, "error", "GPS Error")
           /\ statusType' = "error"
           /\ statusMessage' = "GPS Error"
           /\ isTracking' = isTracking
           /\ watchIdRef' = watchIdRef
           /\ lastSentLocationRef' = lastSentLocationRef
           /\ lastSentTimeRef' = lastSentTimeRef
           /\ inflight' = inflight
           /\ nPushes' = nPushes]_vars

\* The stream reported an error while a call was outstanding and a fix had
\* been sent before
C32_Witness ==
    /\ lastEvent.kind = "watchError"
    /\ isTracking
    /\ watchIdRef # NULL
    /\ inflight # {}
    /\ ~MemoryEmpty
    /\ statusType = "error"
    /\ logs[Len(logs)].message = "GPS Error"

\* C33: lastSentLocationRef is null exactly when lastSentTimeRef is 0; the
\* two change only together, in the step in which a pushTelemetry call
\* resolves true, and then hold the latitude, longitude and timestamp of the
\* record of that call, the timestamp being the instant its fix arrived.
C33_MemoryIsOneAcknowledgedRecord ==
    /\ [](MemoryEmpty <=> lastSentTimeRef = 0)
    /\ [][(lastSentLocationRef' # lastSentLocationRef
           \/ lastSentTimeRef' # lastSentTimeRef)
          => /\ ResolveStep
             /\ lastEvent'.success
             /\ lastSentLocationRef' = [lat |-> ResolvedCall.telemetry.latitude,
                                        lng |-> ResolvedCall.telemetry.longitude]
             /\ lastSentTimeRef' = ResolvedCall.telemetry.timestamp]_vars

\* The memory holds a record that was acknowledged later than its fix arrived
C33_Witness ==
    /\ lastEvent.kind = "resolve"
    /\ lastEvent.success
    /\ ~MemoryEmpty
    /\ lastSentTimeRef < clock
    /\ lastSentLocationRef # lastLocation

\* C34: the platform serves at most one subscription of the app at any time;
\* when busId, direction, batteryLevel or isCharging changes while tracking
\* is on, the subscription watchIdRef named is cancelled, the one it names
\* afterwards is the only one served, and lastSentLocationRef and
\* lastSentTimeRef are as they were.
C34_AtMostOneSubscription ==
    /\ [](Cardinality(activeWatches) <= 1)
    /\ [][(/\ isTracking
           /\ geolocation
           /\ \/ busId' # busId
              \/ direction' # direction
              \/ batteryLevel' # batteryLevel
              \/ isCharging' # isCharging)
          => /\ watchIdRef \notin activeWatches'
             /\ watchIdRef' # watchIdRef
             /\ activeWatches' = {watchIdRef'}
             /\ lastSentLocationRef' = lastSentLocationRef
             /\ lastSentTimeRef' = lastSentTimeRef]_vars

\* The battery reported while tracking was on and a fix had been sent: the
\* second subscription is the only one
C34_Witness ==
    /\ lastEvent.kind = "updateBattery"
    /\ isTracking
    /\ ~MemoryEmpty
    /\ watchIdRef = WatchHandle(2)
    /\ activeWatches = {WatchHandle(2)}

\* C35: the sink is out of mock mode only with a database handle, so no
\* pushTelemetry call takes the branch "initialized but DB instance is null";
\* a run of initializeFirebase reports no error exactly when it leaves the
\* sink out of mock mode with a handle, and every error leaves mock mode.
C35_LiveModeHasDatabase ==
    /\ [](~isMockMode => db # NULL)
    /\ [](\A call \in inflight : call.branch # "nodb")
    /\ [][lastEvent'.kind \in {"setFbConfig", "toggle"}
          => LET reported == appended'[Len(appended) + 1].message
             IN  /\ reported \in {"System Initialized", "Firebase Init Failed"}
                 /\ reported = "System Initialized"
                        <=> (~isMockMode' /\ db' # NULL)
                 /\ reported = "Firebase Init Failed" => isMockMode']_vars

\* The settings were made unusable after the sink had connected: mock mode,
\* with the handle of the earlier connection left in place
C35_Witness ==
    /\ lastEvent.kind = "setFbConfig"
    /\ isMockMode
    /\ db = DB
    /\ statusMessage = "DB Error"

\* C36: in live mode the sink holds at most one location record for a bus
\* identifier, and the timestamp of the record stored for a bus never
\* decreases from one state to the next
C36_StoredRecordNeverOlder ==
    /\ [](\A r1, r2 \in remoteDb : r1.busId = r2.busId => r1 = r2)
    /\ [][\A old \in remoteDb, new \in remoteDb' :
              old.busId = new.busId => new.timestamp >= old.timestamp]_vars

\* C37: a request for an announcement never ends in a rejection: a missing
\* API key or a failure of the generator gives the fixed error message, a
\* reply without text gives the fixed fallback message, and any other reply
\* its text; the step that ends a request sets isGenerating to false, so
\* isGenerating is true only while a request is outstanding and always
\* returns to false; and a blank incident text starts no request
C37_AnnouncementAlwaysCompletes ==
    /\ [](isGenerating => aiCalls # {})
    /\ [][aiCalls' # aiCalls /\ aiCalls' \subseteq aiCalls =>
              LET outcome == lastEvent'.outcome
                  message ==
                      CASE outcome \in {"noKey", "failure"} ->
                              "Error generating announcement. Please check your connection."
                        [] outcome = "empty" -> "Unable to generate announcement."
                        [] OTHER -> ReplyText
              IN  /\ ~lastEvent'.rejected
                  /\ generatedMsg' = message
                  /\ ~isGenerating']_vars
    /\ [][Trim(incidentText) = <<>> =>
              aiCalls' \subseteq aiCalls /\ (isGenerating' => isGenerating)]_vars
    /\ (isGenerating ~> ~isGenerating)
C37_Witness ==
    /\ lastEvent.kind = "announcement"
    /\ lastEvent.outcome = "noKey"
    /\ generatedMsg = "Error generating announcement. Please check your connection."
    /\ ~isGenerating
    /\ aiCalls = {}

\* C38: the status message reads "Tracking Active" only in states where
\* tracking is on, however the 2 s timer of a successful send and the
\* tracking button interleave
C38_TrackingActiveOnlyWhileTracking ==
    statusMessage = "Tracking Active" => isTracking

====
